---- MODULE Spec2Model ----
(***************************************************************************)
(* The lazy caching layer of the convoy physics (convoy.h):                *)
(* lazy_convoy_t, potential_convoy_t and existing_convoy_t.                *)
(*                                                                         *)
(* A convoy object is modelled by its fields: the validity bit mask        *)
(* is_valid and the cached items.  The content of a cached item is         *)
(* modelled relative to the live inputs (the vehicle list and the          *)
(* location): "fresh" when it is what a recomputation from the present     *)
(* inputs yields, "stale" when an input it was computed from has changed   *)
(* since, "unset" when it was never computed.                              *)
(***************************************************************************)
EXTENDS Integers, Sequences, FiniteSets, TLC

VARIABLES
    kind,             \* "none" before construction, "potential" or "existing"
    is_valid,         \* lazy_convoy_t::is_valid, a mask of convoy_detail_e bits
    vehicle,          \* convoy_t::vehicle
    adverse,          \* convoy_t::adverse
    freight,          \* lazy_convoy_t::freight
    weight,           \* existing_convoy_t::weight
    starting_force,   \* lazy_convoy_t::starting_force
    continuous_power, \* lazy_convoy_t::continuous_power
    unnotified,
    op,               \* the operation performed last
    pre_valid,        \* is_valid when the last operation was entered
    log,              \* hooks and base computations the last operation invoked
    ret,              \* what the last operation returned ("void": nothing)
    confined,         \* callers take turns: one owner of the convoy at a time
    owner,            \* the caller that owns the convoy, 0 when none does
    pc,               \* where each caller is in its get_*_summary() call
    item,             \* the summary each caller asks for
    tmp,              \* the value of is_valid each caller loaded
    seen,             \* what each caller read through the returned reference
    raced,            \* summaries two update hooks wrote at the same time
    fn,               \* the function of the physics evaluated last
    arg,              \* its arguments
    out               \* its result

\* the callers of the step-by-step view
callers == <<confined, owner, pc, item, tmp, seen, raced>>

\* the history of the call-by-call view
history == <<unnotified, op, pre_valid, log, ret>>

\* the evaluation of the units and of the engine
physics == <<fn, arg, out>>

\* the convoy object of the caching layer and its callers
lazy == <<kind, is_valid, vehicle, adverse, freight, weight, starting_force,
          continuous_power, history, callers>>

vars == <<lazy, physics>>

\* Number of callers that share one convoy.
NumCallers == 2

Callers == 1..NumCallers

(***************************************************************************)
(* enum convoy_detail_e and the bit operations of C on the mask.           *)
(***************************************************************************)
cd_vehicle_summary == 1
cd_adverse_summary == 2
cd_freight_summary == 4
cd_weight_summary == 8
cd_starting_force == 16
cd_continuous_power == 32

AllDetails == {cd_vehicle_summary, cd_adverse_summary, cd_freight_summary,
               cd_weight_summary, cd_starting_force, cd_continuous_power}

Masks == 0..(2 * cd_continuous_power - 1)

\* (m & b) != 0 for a single bit b
HasBit(m, b) == (m \div b) % 2 = 1

\* m | b for a single bit b
BitOr(m, b) == IF HasBit(m, b) THEN m ELSE m + b

\* m & ~mask
BitAndNot(m, mask) ==
    LET drop(b) == IF HasBit(m, b) /\ HasBit(mask, b) THEN b ELSE 0
    IN  m - drop(cd_vehicle_summary) - drop(cd_adverse_summary)
          - drop(cd_freight_summary) - drop(cd_weight_summary)
          - drop(cd_starting_force) - drop(cd_continuous_power)

(***************************************************************************)
(* The object while an operation runs on it: its fields, the hooks         *)
(* invoked so far and the value to return.                                 *)
(***************************************************************************)
Self ==
    [is_valid |-> is_valid, vehicle |-> vehicle, adverse |-> adverse,
     freight |-> freight, weight |-> weight,
     starting_force |-> starting_force,
     continuous_power |-> continuous_power, log |-> <<>>, ret |-> "void"]

\* One entry of the log: what was invoked and the mask at that moment.
Ev(name, s) == [hook |-> name, valid |-> s.is_valid]

Called(s, name) == [s EXCEPT !.log = Append(@, Ev(name, s))]

(***************************************************************************)
(* The hooks of the variants.  Each recomputes its item from the live      *)
(* inputs, the vehicle list and the location, so what it stores is fresh.  *)
(***************************************************************************)
update_vehicle_summary(s) ==
    [Called(s, "update_vehicle_summary") EXCEPT !.vehicle = "fresh"]

update_adverse_summary(s) ==
    [Called(s, "update_adverse_summary") EXCEPT !.adverse = "fresh"]

update_freight_summary(s) ==
    [Called(s, "update_freight_summary") EXCEPT !.freight = "fresh"]

update_weight_summary(s) ==
    [Called(s, "update_weight_summary") EXCEPT !.weight = "fresh"]

\* engine force in kN at speed 0, from the live vehicles
get_force_summary_0 == "fresh"

\* engine power in kW at the given speed, from the live vehicles: as good
\* as the speed it is asked for
get_power_summary(speed) == IF speed = "fresh" THEN "fresh" ELSE "stale"

\* The content of an item after an input it was computed from has changed.
Outdated(content) == IF content = "unset" THEN "unset" ELSE "stale"

(***************************************************************************)
(* lazy_convoy_t: invalidate_*, validate_* and the cached getters.         *)
(***************************************************************************)

\* A mask that misses cd_continuous_power.
invalidate_vehicle_summary_short_mask(s) ==
    [s EXCEPT !.is_valid =
        BitAndNot(@, cd_vehicle_summary + cd_adverse_summary
                     + cd_weight_summary + cd_starting_force)]

invalidate_vehicle_summary(s) ==
    [s EXCEPT !.is_valid =
        BitAndNot(@, cd_vehicle_summary + cd_adverse_summary
                     + cd_weight_summary + cd_starting_force
                     + cd_continuous_power)]

validate_vehicle_summary(s) ==
    IF ~HasBit(s.is_valid, cd_vehicle_summary)
    THEN update_vehicle_summary(
            [s EXCEPT !.is_valid = BitOr(@, cd_vehicle_summary)])
    ELSE s

\* convoy_t::get_vehicle_summary returns the member
get_vehicle_summary(s) ==
    LET t == validate_vehicle_summary(s) IN [t EXCEPT !.ret = t.vehicle]


\* The mask of invalidate_vehicle_summary pasted into invalidate_adverse_summary.
invalidate_adverse_summary_wide_mask(s) ==
    [s EXCEPT !.is_valid =
        BitAndNot(@, cd_vehicle_summary + cd_adverse_summary
                     + cd_weight_summary)]

invalidate_adverse_summary(s) ==
    [s EXCEPT !.is_valid =
        BitAndNot(@, cd_adverse_summary + cd_weight_summary)]

validate_adverse_summary(s) ==
    IF ~HasBit(s.is_valid, cd_adverse_summary)
    THEN update_adverse_summary(
            [s EXCEPT !.is_valid = BitOr(@, cd_adverse_summary)])
    ELSE s

get_adverse_summary(s) ==
    LET t == validate_adverse_summary(s) IN [t EXCEPT !.ret = t.adverse]

invalidate_freight_summary(s) ==
    [s EXCEPT !.is_valid = BitAndNot(@, cd_freight_summary)]

validate_freight_summary(s) ==
    IF ~HasBit(s.is_valid, cd_freight_summary)
    THEN update_freight_summary(
            [s EXCEPT !.is_valid = BitOr(@, cd_freight_summary)])
    ELSE s

get_freight_summary(s) ==
    LET t == validate_freight_summary(s) IN [t EXCEPT !.ret = t.freight]

\* An invalidation that takes the continuous power with it.
invalidate_starting_force_and_power(s) ==
    [s EXCEPT !.is_valid =
        BitAndNot(@, cd_starting_force + cd_continuous_power)]

invalidate_starting_force(s) ==
    [s EXCEPT !.is_valid = BitAndNot(@, cd_starting_force)]

\* convoy_t::get_starting_force: get_force_summary(0) * 1000
convoy_t_get_starting_force(s) ==
    [Called(s, "convoy_t::get_starting_force") EXCEPT
        !.ret = get_force_summary_0]

get_starting_force(s) ==
    LET t == IF ~HasBit(s.is_valid, cd_starting_force)
             THEN LET u == convoy_t_get_starting_force(
                            [s EXCEPT !.is_valid =
                                BitOr(@, cd_starting_force)])
                  IN  [u EXCEPT !.starting_force = u.ret]
             ELSE s
    IN  [t EXCEPT !.ret = t.starting_force]

invalidate_continuous_power(s) ==
    [s EXCEPT !.is_valid = BitAndNot(@, cd_continuous_power)]

\* convoy_t::get_continuous_power:
\* get_power_summary(get_vehicle_summary().max_speed) * 1000
convoy_t_get_continuous_power(s) ==
    LET t == get_vehicle_summary(Called(s, "convoy_t::get_continuous_power"))
    IN  [t EXCEPT !.ret = get_power_summary(t.ret)]


\* A getter that recomputes although the bit is set.
get_continuous_power_uncached(s) ==
    LET u == convoy_t_get_continuous_power(
                [s EXCEPT !.is_valid = BitOr(@, cd_continuous_power)])
    IN  [u EXCEPT !.continuous_power = u.ret]

get_continuous_power(s) ==
    LET t == IF ~HasBit(s.is_valid, cd_continuous_power)
             THEN LET u == convoy_t_get_continuous_power(
                            [s EXCEPT !.is_valid =
                                BitOr(@, cd_continuous_power)])
                  IN  [u EXCEPT !.continuous_power = u.ret]
             ELSE s
    IN  [t EXCEPT !.ret = t.continuous_power]

(***************************************************************************)
(* The base engine convoy_t behind the lazy layer.  What matters here is   *)
(* the moment of delegation and which cached scalars the engine asks for   *)
(* through the virtual getters: calc_max_weight needs the starting force   *)
(* and the continuous power, calc_max_starting_weight the starting force,  *)
(* and calc_max_speed and calc_move ask for them depending on the speeds   *)
(* they look at (get_force uses get_starting_force below 1 m/s).           *)
(***************************************************************************)
Scalars == {"starting_force", "continuous_power"}

convoy_t_engine(s, name, uses) ==
    LET t == Called(s, name)
        u == IF "starting_force" \in uses THEN get_starting_force(t) ELSE t
        w == IF "continuous_power" \in uses
             THEN get_continuous_power(u) ELSE u
    IN  [w EXCEPT !.ret = "void"]

convoy_t_calc_max_speed(s, uses) ==
    convoy_t_engine(s, "convoy_t::calc_max_speed", uses)

convoy_t_calc_max_weight(s) ==
    convoy_t_engine(s, "convoy_t::calc_max_weight", Scalars)

convoy_t_calc_max_starting_weight(s) ==
    convoy_t_engine(s, "convoy_t::calc_max_starting_weight",
                    {"starting_force"})

convoy_t_calc_move(s, uses) ==
    convoy_t_engine(s, "convoy_t::calc_move", uses)

(***************************************************************************)
(* lazy_convoy_t: the constructor and the calc_* queries.                  *)
(***************************************************************************)

\* A constructor that leaves is_valid as the memory held it.
lazy_convoy_t_ctor_uninitialized(s) == s

lazy_convoy_t_ctor(s) == [s EXCEPT !.is_valid = 0]

lazy_calc_max_speed(s, uses) ==
    convoy_t_calc_max_speed(
        validate_adverse_summary(validate_vehicle_summary(s)), uses)

lazy_calc_max_weight(s) ==
    convoy_t_calc_max_weight(
        validate_adverse_summary(validate_vehicle_summary(s)))

lazy_calc_max_starting_weight(s) ==
    convoy_t_calc_max_starting_weight(
        validate_adverse_summary(validate_vehicle_summary(s)))


\* calc_move delegating without validate_adverse_summary.
lazy_calc_move_unvalidated(s, uses) ==
    convoy_t_calc_move(validate_vehicle_summary(s), uses)

lazy_calc_move(s, uses) ==
    convoy_t_calc_move(
        validate_adverse_summary(validate_vehicle_summary(s)), uses)

(***************************************************************************)
(* potential_convoy_t and existing_convoy_t.                               *)
(***************************************************************************)
potential_convoy_t_ctor(s) == lazy_convoy_t_ctor(s)

existing_convoy_t_ctor(s) ==
    validate_adverse_summary(validate_vehicle_summary(lazy_convoy_t_ctor(s)))

invalidate_weight_summary(s) ==
    [s EXCEPT !.is_valid = BitAndNot(@, cd_weight_summary)]

validate_weight_summary(s) ==
    IF ~HasBit(s.is_valid, cd_weight_summary)
    THEN update_weight_summary(
            [s EXCEPT !.is_valid = BitOr(@, cd_weight_summary)])
    ELSE s

get_weight_summary(s) ==
    LET t == validate_weight_summary(s) IN [t EXCEPT !.ret = t.weight]

\* the overload without a weight argument
existing_calc_move(s, uses) ==
    convoy_t_calc_move(validate_weight_summary(s), uses)

(***************************************************************************)
(* The callers.  One action per public operation; every action runs the    *)
(* whole operation on the object and stores the fields back.               *)
(***************************************************************************)
Commit(t, name) ==
    /\ is_valid' = t.is_valid
    /\ vehicle' = t.vehicle
    /\ adverse' = t.adverse
    /\ freight' = t.freight
    /\ weight' = t.weight
    /\ starting_force' = t.starting_force
    /\ continuous_power' = t.continuous_power
    /\ log' = t.log
    /\ ret' = t.ret
    /\ op' = name
    /\ pre_valid' = is_valid
    /\ UNCHANGED <<callers, physics>>

Constructed == kind \in {"potential", "existing"}

\* Before construction the fields hold whatever the memory held.
InitLazy ==
    /\ kind = "none"
    /\ is_valid \in Masks
    /\ vehicle = "unset" /\ adverse = "unset" /\ freight = "unset"
    /\ weight = "unset"
    /\ starting_force = "unset" /\ continuous_power = "unset"
    /\ unnotified = {}
    /\ op = "none"
    /\ pre_valid = is_valid
    /\ log = <<>>
    /\ ret = "void"
    /\ confined = TRUE
    /\ owner = 0
    /\ pc = [c \in Callers |-> "idle"]
    /\ item = [c \in Callers |-> "vehicle"]
    /\ tmp = [c \in Callers |-> 0]
    /\ seen = [c \in Callers |-> "none"]
    /\ raced = {}

Init == InitLazy /\ fn = "none" /\ arg = <<>> /\ out = <<>>

New_potential_convoy_t ==
    /\ kind = "none"
    /\ kind' = "potential"
    /\ UNCHANGED unnotified
    /\ Commit(potential_convoy_t_ctor(Self), "potential_convoy_t")

New_existing_convoy_t ==
    /\ kind = "none"
    /\ kind' = "existing"
    /\ UNCHANGED unnotified
    /\ Commit(existing_convoy_t_ctor(Self), "existing_convoy_t")

\* The game changes the vehicle list or a vehicle's descriptor.
vehicles_changed(s) ==
    [s EXCEPT !.vehicle = Outdated(@), !.adverse = Outdated(@),
              !.freight = Outdated(@), !.weight = Outdated(@),
              !.starting_force = Outdated(@),
              !.continuous_power = Outdated(@)]

\* The convoy moves onto another way or slope.
location_changed(s) ==
    [s EXCEPT !.adverse = Outdated(@), !.weight = Outdated(@)]

\* A change of the vehicles, which the caller reports through
\* invalidate_vehicle_summary.
ChangeVehicles ==
    /\ Constructed
    /\ Commit(vehicles_changed(Self), "change_vehicles")
    /\ unnotified' = unnotified \cup {"vehicles"}
    /\ UNCHANGED kind

\* A change of the location, which the caller reports through
\* invalidate_adverse_summary.
ChangeLocation ==
    /\ Constructed
    /\ Commit(location_changed(Self), "change_location")
    /\ unnotified' = unnotified \cup {"location"}
    /\ UNCHANGED kind

Call_invalidate_vehicle_summary ==
    /\ Constructed
    /\ Commit(invalidate_vehicle_summary(Self), "invalidate_vehicle_summary")
    /\ unnotified' = unnotified \ {"vehicles"}
    /\ UNCHANGED kind

Call_validate_vehicle_summary ==
    /\ Constructed
    /\ Commit(validate_vehicle_summary(Self), "validate_vehicle_summary")
    /\ UNCHANGED <<kind, unnotified>>

Call_get_vehicle_summary ==
    /\ Constructed
    /\ Commit(get_vehicle_summary(Self), "get_vehicle_summary")
    /\ UNCHANGED <<kind, unnotified>>

Call_invalidate_adverse_summary ==
    /\ Constructed
    /\ Commit(invalidate_adverse_summary(Self), "invalidate_adverse_summary")
    /\ unnotified' = unnotified \ {"location"}
    /\ UNCHANGED kind

Call_validate_adverse_summary ==
    /\ Constructed
    /\ Commit(validate_adverse_summary(Self), "validate_adverse_summary")
    /\ UNCHANGED <<kind, unnotified>>

Call_get_adverse_summary ==
    /\ Constructed
    /\ Commit(get_adverse_summary(Self), "get_adverse_summary")
    /\ UNCHANGED <<kind, unnotified>>

Call_invalidate_freight_summary ==
    /\ Constructed
    /\ Commit(invalidate_freight_summary(Self), "invalidate_freight_summary")
    /\ UNCHANGED <<kind, unnotified>>

Call_validate_freight_summary ==
    /\ Constructed
    /\ Commit(validate_freight_summary(Self), "validate_freight_summary")
    /\ UNCHANGED <<kind, unnotified>>

Call_get_freight_summary ==
    /\ Constructed
    /\ Commit(get_freight_summary(Self), "get_freight_summary")
    /\ UNCHANGED <<kind, unnotified>>

Call_invalidate_starting_force ==
    /\ Constructed
    /\ Commit(invalidate_starting_force(Self), "invalidate_starting_force")
    /\ UNCHANGED <<kind, unnotified>>

Call_get_starting_force ==
    /\ Constructed
    /\ Commit(get_starting_force(Self), "get_starting_force")
    /\ UNCHANGED <<kind, unnotified>>

Call_invalidate_continuous_power ==
    /\ Constructed
    /\ Commit(invalidate_continuous_power(Self),
              "invalidate_continuous_power")
    /\ UNCHANGED <<kind, unnotified>>

Call_get_continuous_power ==
    /\ Constructed
    /\ Commit(get_continuous_power(Self), "get_continuous_power")
    /\ UNCHANGED <<kind, unnotified>>

Call_calc_max_speed ==
    /\ Constructed
    /\ \E uses \in SUBSET Scalars :
          Commit(lazy_calc_max_speed(Self, uses), "calc_max_speed")
    /\ UNCHANGED <<kind, unnotified>>

Call_calc_max_weight ==
    /\ Constructed
    /\ Commit(lazy_calc_max_weight(Self), "calc_max_weight")
    /\ UNCHANGED <<kind, unnotified>>

Call_calc_max_starting_weight ==
    /\ Constructed
    /\ Commit(lazy_calc_max_starting_weight(Self),
              "calc_max_starting_weight")
    /\ UNCHANGED <<kind, unnotified>>

\* lazy_convoy_t::calc_move, the caller passing a weight summary
Call_calc_move ==
    /\ Constructed
    /\ \E uses \in SUBSET Scalars :
          Commit(lazy_calc_move(Self, uses), "calc_move")
    /\ UNCHANGED <<kind, unnotified>>

Call_invalidate_weight_summary ==
    /\ kind = "existing"
    /\ Commit(invalidate_weight_summary(Self), "invalidate_weight_summary")
    /\ UNCHANGED <<kind, unnotified>>

Call_validate_weight_summary ==
    /\ kind = "existing"
    /\ Commit(validate_weight_summary(Self), "validate_weight_summary")
    /\ UNCHANGED <<kind, unnotified>>

Call_get_weight_summary ==
    /\ kind = "existing"
    /\ Commit(get_weight_summary(Self), "get_weight_summary")
    /\ UNCHANGED <<kind, unnotified>>

\* existing_convoy_t::calc_move, on the cached weight summary
Call_existing_calc_move ==
    /\ kind = "existing"
    /\ \E uses \in SUBSET Scalars :
          Commit(existing_calc_move(Self, uses), "existing_calc_move")
    /\ UNCHANGED <<kind, unnotified>>

Next ==
    \/ New_potential_convoy_t
    \/ New_existing_convoy_t
    \/ ChangeVehicles
    \/ ChangeLocation
    \/ Call_invalidate_vehicle_summary
    \/ Call_validate_vehicle_summary
    \/ Call_get_vehicle_summary
    \/ Call_invalidate_adverse_summary
    \/ Call_validate_adverse_summary
    \/ Call_get_adverse_summary
    \/ Call_invalidate_freight_summary
    \/ Call_validate_freight_summary
    \/ Call_get_freight_summary
    \/ Call_invalidate_starting_force
    \/ Call_get_starting_force
    \/ Call_invalidate_continuous_power
    \/ Call_get_continuous_power
    \/ Call_calc_max_speed
    \/ Call_calc_max_weight
    \/ Call_calc_max_starting_weight
    \/ Call_calc_move
    \/ Call_invalidate_weight_summary
    \/ Call_validate_weight_summary
    \/ Call_get_weight_summary
    \/ Call_existing_calc_move

Spec == Init /\ [][Next]_vars

(***************************************************************************)
(* The step-by-step view: several callers inside get_vehicle_summary() and *)
(* get_adverse_summary() of one potential_convoy_t.  The object has no     *)
(* lock and is_valid is a plain int, so the steps of the callers           *)
(* interleave: the test of the bit, the store of is_valid |= bit, the      *)
(* update hook writing the summary, and the read through the returned      *)
(* reference.  "partial" is a summary a hook is writing, "torn" one that   *)
(* two hooks wrote at the same time.  When confined holds the callers      *)
(* exclude each other from outside: a call starts when no caller owns the  *)
(* convoy and owns it until it has read the result.                        *)
(***************************************************************************)
Summaries == {"vehicle", "adverse"}

Bit(x) == IF x = "vehicle" THEN cd_vehicle_summary ELSE cd_adverse_summary

Content(x) == IF x = "vehicle" THEN vehicle ELSE adverse

\* A test of the vehicle bit pasted into every validate_*.
test_valid_vehicle_bit(m, x) == HasBit(m, cd_vehicle_summary)

\* is_valid & cd_..._summary
test_valid(m, x) == HasBit(m, Bit(x))

\* other callers inside the update hook of x
Updating(c, x) ==
    {d \in Callers \ {c} : pc[d] = "updating" /\ item[d] = x}

Store(x, content) ==
    /\ vehicle' = IF x = "vehicle" THEN content ELSE vehicle
    /\ adverse' = IF x = "adverse" THEN content ELSE adverse

untouched == <<kind, freight, weight, starting_force, continuous_power,
               history, confined, physics>>

InitConc ==
    /\ kind = "potential"
    /\ is_valid \in {potential_convoy_t_ctor([is_valid |-> m]).is_valid :
                        m \in Masks}
    /\ vehicle = "unset" /\ adverse = "unset" /\ freight = "unset"
    /\ weight = "unset"
    /\ starting_force = "unset" /\ continuous_power = "unset"
    /\ unnotified = {}
    /\ op = "potential_convoy_t"
    /\ pre_valid = 0
    /\ log = <<>>
    /\ ret = "void"
    /\ confined \in BOOLEAN
    /\ owner = 0
    /\ pc = [c \in Callers |-> "idle"]
    /\ item = [c \in Callers |-> "vehicle"]
    /\ tmp = [c \in Callers |-> 0]
    /\ seen = [c \in Callers |-> "none"]
    /\ raced = {}
    /\ fn = "none" /\ arg = <<>> /\ out = <<>>

\* caller c enters get_vehicle_summary() or get_adverse_summary()
Enter(c) ==
    /\ pc[c] = "idle"
    /\ confined => owner = 0
    /\ owner' = IF confined THEN c ELSE owner
    /\ \E x \in Summaries : item' = [item EXCEPT ![c] = x]
    /\ pc' = [pc EXCEPT ![c] = "test"]
    /\ UNCHANGED <<is_valid, vehicle, adverse, tmp, seen, raced, untouched>>

\* if (!(is_valid & bit))
TestBit(c) ==
    /\ pc[c] = "test"
    /\ tmp' = [tmp EXCEPT ![c] = is_valid]
    /\ pc' = [pc EXCEPT ![c] =
                IF test_valid(is_valid, item[c]) THEN "read" ELSE "set"]
    /\ UNCHANGED <<is_valid, vehicle, adverse, owner, item, seen, raced,
                   untouched>>

\* is_valid |= bit: the store writes the loaded value or a reloaded one
SetBit(c) ==
    /\ pc[c] = "set"
    /\ \E m \in {tmp[c], is_valid} : is_valid' = BitOr(m, Bit(item[c]))
    /\ pc' = [pc EXCEPT ![c] = "update"]
    /\ UNCHANGED <<vehicle, adverse, owner, item, tmp, seen, raced,
                   untouched>>

\* update_..._summary() starts to write the summary
HookBegin(c) ==
    /\ pc[c] = "update"
    /\ Store(item[c], "partial")
    /\ raced' = IF Updating(c, item[c]) = {}
                THEN raced \ {item[c]} ELSE raced \cup {item[c]}
    /\ pc' = [pc EXCEPT ![c] = "updating"]
    /\ UNCHANGED <<is_valid, owner, item, tmp, seen, untouched>>

\* update_..._summary() returns
HookEnd(c) ==
    /\ pc[c] = "updating"
    /\ IF Updating(c, item[c]) # {}
       THEN Store(item[c], "partial")
       ELSE \E content \in (IF item[c] \in raced
                            THEN {"fresh", "torn"} ELSE {"fresh"}) :
               Store(item[c], content)
    /\ pc' = [pc EXCEPT ![c] = "read"]
    /\ UNCHANGED <<is_valid, owner, item, tmp, seen, raced, untouched>>

\* return vehicle; and the caller reads the summary
ReadSummary(c) ==
    /\ pc[c] = "read"
    /\ seen' = [seen EXCEPT ![c] = Content(item[c])]
    /\ pc' = [pc EXCEPT ![c] = "done"]
    /\ UNCHANGED <<is_valid, vehicle, adverse, owner, item, tmp, raced,
                   untouched>>

\* the caller is done with the summary
Leave(c) ==
    /\ pc[c] = "done"
    /\ pc' = [pc EXCEPT ![c] = "idle"]
    /\ seen' = [seen EXCEPT ![c] = "none"]
    /\ tmp' = [tmp EXCEPT ![c] = 0]
    /\ item' = [item EXCEPT ![c] = "vehicle"]
    /\ owner' = IF confined THEN 0 ELSE owner
    /\ UNCHANGED <<is_valid, vehicle, adverse, raced, untouched>>

NextConc ==
    \E c \in Callers :
        \/ Enter(c)
        \/ TestBit(c)
        \/ SetBit(c)
        \/ HookBegin(c)
        \/ HookEnd(c)
        \/ ReadSummary(c)
        \/ Leave(c)

SpecConc == InitConc /\ [][NextConc]_vars

(***************************************************************************)
(* Properties of the caching layer.                                        *)
(***************************************************************************)
\* The names of what the last operation invoked, in order.
Hooks == [i \in 1..Len(log) |-> log[i].hook]

Count(name) == Cardinality({i \in 1..Len(log) : log[i].hook = name})

AllValid == 2 * cd_continuous_power - 1

C2_InvalidateAdverseSummary ==
    op = "invalidate_adverse_summary" =>
        /\ ~HasBit(is_valid, cd_adverse_summary)
        /\ ~HasBit(is_valid, cd_weight_summary)
        /\ \A b \in AllDetails \ {cd_adverse_summary, cd_weight_summary} :
              HasBit(is_valid, b) <=> HasBit(pre_valid, b)

C2_Witness ==
    /\ op = "invalidate_adverse_summary"
    /\ pre_valid = AllValid
    /\ is_valid = AllValid - cd_adverse_summary - cd_weight_summary

SummariesValid(m) ==
    /\ HasBit(m, cd_vehicle_summary) /\ HasBit(m, cd_adverse_summary)
    /\ HasBit(m, cd_freight_summary) /\ HasBit(m, cd_weight_summary)

\* C3: on an existing_convoy_t with all summaries valid,
\* invalidate_vehicle_summary() followed by get_weight_summary() invokes
\* update_vehicle_summary, update_adverse_summary and update_weight_summary,
\* in this order and each once.
C3_WeightQueryRevalidatesChain ==
    [][(/\ kind = "existing"
        /\ op = "invalidate_vehicle_summary"
        /\ SummariesValid(pre_valid)
        /\ op' = "get_weight_summary")
       => Hooks' = <<"update_vehicle_summary", "update_adverse_summary",
                     "update_weight_summary">>]_vars

\* The hooks a calc_* query has to run before it delegates, given the mask
\* it was entered with.
Missing(m) ==
    (IF HasBit(m, cd_vehicle_summary)
     THEN <<>> ELSE <<"update_vehicle_summary">>)
    \o (IF HasBit(m, cd_adverse_summary)
        THEN <<>> ELSE <<"update_adverse_summary">>)

LazyCalc == {"calc_max_speed", "calc_max_weight",
             "calc_max_starting_weight", "calc_move"}

\* C4: calc_max_speed, calc_max_weight, calc_max_starting_weight and
\* calc_move of lazy_convoy_t run update_vehicle_summary and then
\* update_adverse_summary, each if its bit is clear, and delegate to the
\* convoy_t engine after that, with both bits set.
C4_LazyCalcValidatesBeforeDelegating ==
    op \in LazyCalc =>
        LET n == Len(Missing(pre_valid)) + 1
        IN  /\ Len(log) >= n
            /\ SubSeq(Hooks, 1, n) = Missing(pre_valid) \o <<"convoy_t::" \o op>>
            /\ HasBit(log[n].valid, cd_vehicle_summary)
            /\ HasBit(log[n].valid, cd_adverse_summary)

C4_Witness ==
    /\ op = "calc_move"
    /\ ~HasBit(pre_valid, cd_vehicle_summary)
    /\ ~HasBit(pre_valid, cd_adverse_summary)
    /\ SubSeq(Hooks, 1, 3) = <<"update_vehicle_summary",
                               "update_adverse_summary",
                               "convoy_t::calc_move">>

\* C5: existing_convoy_t::calc_move without a weight argument has
\* vehicle_summary, adverse_summary and weight_summary valid when the
\* convoy_t engine runs.
C5_ExistingCalcMoveValidatesAll ==
    op = "existing_calc_move" =>
        \A i \in 1..Len(log) :
            log[i].hook = "convoy_t::calc_move" =>
                /\ HasBit(log[i].valid, cd_vehicle_summary)
                /\ HasBit(log[i].valid, cd_adverse_summary)
                /\ HasBit(log[i].valid, cd_weight_summary)

\* The validate_*/get_* calls on each cached item, and the hook or base
\* computation that recomputes the item.
Readers ==
    [vehicle |-> {"validate_vehicle_summary", "get_vehicle_summary"},
     adverse |-> {"validate_adverse_summary", "get_adverse_summary"},
     freight |-> {"validate_freight_summary", "get_freight_summary"},
     weight |-> {"validate_weight_summary", "get_weight_summary"},
     starting_force |-> {"get_starting_force"},
     continuous_power |-> {"get_continuous_power"}]

Recompute ==
    [vehicle |-> "update_vehicle_summary",
     adverse |-> "update_adverse_summary",
     freight |-> "update_freight_summary",
     weight |-> "update_weight_summary",
     starting_force |-> "convoy_t::get_starting_force",
     continuous_power |-> "convoy_t::get_continuous_power"]

Items == DOMAIN Readers

Getters == {"get_vehicle_summary", "get_adverse_summary",
            "get_freight_summary", "get_weight_summary",
            "get_starting_force", "get_continuous_power"}

\* C6: of two consecutive validate/get calls on the same cached item the
\* second recomputes nothing, the two together invoke the item's hook (or
\* base computation) at most once, and a second get returns what the
\* first get returned.
C6_SecondCallDoesNotRecompute ==
    [][\A x \in Items :
          (op \in Readers[x] /\ op' \in Readers[x]) =>
              /\ Count(Recompute[x]) <= 1
              /\ Count(Recompute[x])' = 0
              /\ log' = <<>>
              /\ (op \in Getters /\ op' \in Getters) => ret' = ret]_vars

\* A get_continuous_power() that found the bit set by an earlier
\* get_continuous_power(), the only operation that sets it.
C6_Witness ==
    /\ op = "get_continuous_power"
    /\ HasBit(pre_valid, cd_continuous_power)
    /\ log = <<>>
    /\ ret = "fresh"

\* C7: once the caller has reported every change of the vehicles through
\* invalidate_vehicle_summary and every change of the location through
\* invalidate_adverse_summary, each cached getter returns what a
\* recomputation from the present inputs returns.
C7_GettersReturnFreshValues ==
    (unnotified = {} /\ op \in Getters) => ret = "fresh"

\* The same for the getters other than get_freight_summary.
GettersButFreightReturnFreshValues ==
    (unnotified = {} /\ op \in Getters \ {"get_freight_summary"})
        => ret = "fresh"

\* C8: the get_freight_summary() that follows invalidate_vehicle_summary()
\* calls update_freight_summary.
C8_VehicleInvalidationReachesFreight ==
    [][(op = "invalidate_vehicle_summary" /\ op' = "get_freight_summary")
       => Count("update_freight_summary")' = 1]_vars

\* C9: the constructor of existing_convoy_t has run update_vehicle_summary
\* and then update_adverse_summary, each once, and leaves exactly the
\* vehicle and adverse bits set; the constructor of potential_convoy_t runs
\* no hook and leaves no bit set.
C9_Construction ==
    /\ op = "existing_convoy_t" =>
          /\ Hooks = <<"update_vehicle_summary", "update_adverse_summary">>
          /\ is_valid = cd_vehicle_summary + cd_adverse_summary
    /\ op = "potential_convoy_t" => (log = <<>> /\ is_valid = 0)

\* An existing_convoy_t constructed in memory that held every bit set.
C9_Witness ==
    /\ op = "existing_convoy_t"
    /\ pre_valid = AllValid
    /\ is_valid = cd_vehicle_summary + cd_adverse_summary
    /\ Len(log) = 2

\* A caller that is reading, or has read, a summary whose update hook has
\* not completed.
ReadsIncomplete(c) == pc[c] = "done" /\ seen[c] # "fresh"

\* C10: a caller reads a summary whose update hook has not completed only
\* when the callers are not confined to one owner at a time: with one owner
\* at a time every summary a caller reads has its hook completed.
C10_IncompleteReadNeedsSharing ==
    \A c \in Callers : ReadsIncomplete(c) => ~confined

\* Caller c found the bit set and read the summary while caller d, which
\* had set the bit, was still before the end of its update hook.
C10_Witness ==
    \E c, d \in Callers :
        /\ c # d
        /\ ~confined
        /\ ReadsIncomplete(c)
        /\ test_valid(tmp[c], item[c])
        /\ item[d] = item[c]
        /\ pc[d] \in {"update", "updating"}

\* With one owner at a time a caller has read a summary after running its
\* update hook to the end.
ConfinedReadReached ==
    \E c \in Callers : confined /\ pc[c] = "done" /\ seen[c] = "fresh"

(***************************************************************************)
(* The units and the summaries by value.                                   *)
(*                                                                         *)
(* float32e8_t (utils/float32e8_t.h) is an exact rational here: a pair     *)
(* <<numerator, denominator>> in lowest terms with a positive denominator. *)
(* Its conversion to sint32 drops the fraction, towards zero.              *)
(***************************************************************************)
Abs(x) == IF x < 0 THEN -x ELSE x

RECURSIVE GCD(_, _)
GCD(a, b) == IF b = 0 THEN a ELSE GCD(b, a % b)

\* float32e8_t(nominator, denominator), denominator > 0
float32e8_t(nominator, denominator) ==
    LET g == GCD(Abs(nominator), denominator)
    IN  <<nominator \div g, denominator \div g>>

\* float32e8_t(sint32)
from_sint32(i) == <<i, 1>>

\* operator *  (the factors are cancelled crosswise before they are multiplied)
times(a, b) ==
    LET g1 == GCD(Abs(a[1]), b[2])
        g2 == GCD(Abs(b[1]), a[2])
    IN  <<(a[1] \div g1) * (b[1] \div g2), (a[2] \div g2) * (b[2] \div g1)>>

\* operator +
plus(a, b) ==
    LET g == GCD(a[2], b[2])
    IN  float32e8_t(a[1] * (b[2] \div g) + b[1] * (a[2] \div g),
                    (a[2] \div g) * b[2])

\* unary operator -
negative(a) == <<-a[1], a[2]>>

\* operator /, b # 0
divided_by(a, b) ==
    times(a, IF b[1] > 0 THEN <<b[2], b[1]>> ELSE <<-b[2], -b[1]>>)

\* operator <
less_than(a, b) ==
    LET g == GCD(a[2], b[2])
    IN  a[1] * (b[2] \div g) < b[1] * (a[2] \div g)

\* operator sint32
to_sint32(x) ==
    IF x[1] >= 0 THEN x[1] \div x[2] ELSE -((-x[1]) \div x[2])

half == float32e8_t(1, 2)

\* sint32 << k and sint32 >> k, the results kept in 32 bits
shift_left(n, k) ==
    LET m == n % (2 ^ (32 - k))
    IN  IF m >= 2 ^ (31 - k) THEN (m - 2 ^ (32 - k)) * (2 ^ k)
                             ELSE m * (2 ^ k)

shift_right(n, k) == (n - (n % (2 ^ k))) \div (2 ^ k)

VEHICLE_SPEED_FACTOR == 80

YARDS_PER_VEHICLE_STEP_SHIFT == 12

DT_TIME_FACTOR == 64

KMH_SPEED_UNLIMITED == 300000

kmh2ms == float32e8_t(10, 36)

ms2kmh == float32e8_t(36, 10)

simspeed2ms == float32e8_t(10 * VEHICLE_SPEED_FACTOR, 36 * 1024)

ms2simspeed == float32e8_t(36 * 1024, 10 * VEHICLE_SPEED_FACTOR)

speed_to_v(speed) == times(simspeed2ms, from_sint32(speed))

v_to_speed_rounding_up(v) ==
    to_sint32(plus(times(ms2simspeed, v), from_sint32(1)))

v_to_speed(v) == to_sint32(plus(times(ms2simspeed, v), half))

yards2m ==
    float32e8_t(10 * VEHICLE_SPEED_FACTOR, 36 * 1024 * DT_TIME_FACTOR)

m2yards ==
    float32e8_t(36 * 1024 * DT_TIME_FACTOR, 10 * VEHICLE_SPEED_FACTOR)

yards_to_x(yards) == times(yards2m, from_sint32(yards))

x_to_yards(x) == to_sint32(plus(times(m2yards, x), half))

steps_to_x(simtime_factor, steps) ==
    times(yards_to_x(shift_left(steps, YARDS_PER_VEHICLE_STEP_SHIFT)),
          simtime_factor)

x_to_steps(simtime_factor, x) ==
    shift_right(x_to_yards(divided_by(x, simtime_factor)),
                YARDS_PER_VEHICLE_STEP_SHIFT)

vehicle_summary_t_clear_keeps_max_speed(v) ==
    [v EXCEPT !.length = 0, !.tiles = 0, !.weight = 0]

\* vehicle_summary_t::clear()
vehicle_summary_t_clear(v) ==
    [v EXCEPT !.length = 0, !.tiles = 0, !.weight = 0,
              !.max_speed = KMH_SPEED_UNLIMITED]

adverse_summary_t_clear_resets_br(a) ==
    [a EXCEPT !.cf = from_sint32(0), !.fr = from_sint32(0),
              !.br = from_sint32(0), !.max_speed = KMH_SPEED_UNLIMITED]

\* adverse_summary_t::clear(): br is not assigned
adverse_summary_t_clear(a) ==
    [a EXCEPT !.cf = from_sint32(0), !.fr = from_sint32(0),
              !.max_speed = KMH_SPEED_UNLIMITED]

\* What a variant's get_brake_summary, get_force_summary or
\* get_power_summary returns by its argument: a curve of three levels, one
\* at speed 0, one below Knee and one from Knee on.
Knee == 2

at_speed(curve, speed) ==
    IF speed = 0 THEN curve.start
    ELSE IF speed < Knee THEN curve.slow ELSE curve.fast

\* convoy_t::get_continuous_power() by value, in W: power_summary is the
\* curve of the variant's get_power_summary(speed), in kW.
convoy_t_get_continuous_power_W(power_summary, vehicle_summary) ==
    at_speed(power_summary, vehicle_summary.max_speed) * 1000

(***************************************************************************)
(* The units, evaluated on inputs from bounded sets.                       *)
(***************************************************************************)
\* Speeds, yards and steps are taken from -MaxUnits..MaxUnits.
MaxUnits == 8

\* Stored speeds in km/h are taken from 0..MaxKmh.
MaxKmh == 4

Units == (-MaxUnits)..MaxUnits

Factors == {float32e8_t(1, 2), float32e8_t(1, 1), float32e8_t(3, 1)}

\* The levels of a curve, in kN or kW, are taken from 0..MaxLevel.
MaxLevel == 1

Curves == [start : 0..MaxLevel, slow : 0..MaxLevel, fast : 0..MaxLevel]

VehicleSummaries ==
    [length : {0, 24}, tiles : {0, 2}, weight : {0, 1000},
     max_speed : {0, MaxKmh, KMH_SPEED_UNLIMITED}]

AdverseSummaries ==
    [cf : {from_sint32(0), from_sint32(13)},
     fr : {from_sint32(0), float32e8_t(51, 10000)},
     br : {float32e8_t(1, 2), float32e8_t(2, 1)},
     max_speed : {MaxKmh, KMH_SPEED_UNLIMITED}]

Evaluate(name, a, r) ==
    /\ fn' = name
    /\ arg' = a
    /\ out' = r
    /\ UNCHANGED lazy

\* the second half of a round trip: the result of `first' is converted back
Back(first, name, r) ==
    /\ fn = first
    /\ Evaluate(name, [x |-> out, of |-> arg], r)

Eval_speed_to_v == \E s \in Units : Evaluate("speed_to_v", s, speed_to_v(s))

Eval_v_to_speed == Back("speed_to_v", "v_to_speed", v_to_speed(out))

Eval_kmh2ms ==
    \E s \in Units : Evaluate("kmh2ms", s, times(kmh2ms, from_sint32(s)))

Eval_ms2kmh == Back("kmh2ms", "ms2kmh", times(ms2kmh, out))

Eval_yards_to_x == \E y \in Units : Evaluate("yards_to_x", y, yards_to_x(y))

Eval_x_to_yards == Back("yards_to_x", "x_to_yards", x_to_yards(out))

Eval_steps_to_x ==
    \E f \in Factors, n \in Units :
        Evaluate("steps_to_x", [simtime_factor |-> f, steps |-> n],
                 steps_to_x(f, n))

Eval_x_to_steps ==
    Back("steps_to_x", "x_to_steps", x_to_steps(arg.simtime_factor, out))

Eval_get_continuous_power ==
    \E p \in Curves, v \in VehicleSummaries :
        /\ v.max_speed <= MaxKmh
        /\ Evaluate("get_continuous_power",
                    [power_summary |-> p, vehicle |-> v],
                    convoy_t_get_continuous_power_W(p, v))

Eval_vehicle_summary_t_clear ==
    \E v \in VehicleSummaries :
        Evaluate("vehicle_summary_t::clear", v, vehicle_summary_t_clear(v))

Eval_adverse_summary_t_clear ==
    \E a \in AdverseSummaries :
        Evaluate("adverse_summary_t::clear", a, adverse_summary_t_clear(a))

InitUnits == Init /\ is_valid = 0

NextUnits ==
    \/ Eval_speed_to_v
    \/ Eval_v_to_speed
    \/ Eval_kmh2ms
    \/ Eval_ms2kmh
    \/ Eval_yards_to_x
    \/ Eval_x_to_yards
    \/ Eval_steps_to_x
    \/ Eval_x_to_steps
    \/ Eval_get_continuous_power
    \/ Eval_vehicle_summary_t_clear
    \/ Eval_adverse_summary_t_clear

SpecUnits == InitUnits /\ [][NextUnits]_vars

(***************************************************************************)
(* Properties of the units and of the summaries.                           *)
(***************************************************************************)
\* C11: the speed get_continuous_power() hands to get_power_summary is the
\* stored max_speed converted from km/h to m/s with kmh2ms: the power it
\* returns is the power at that speed in m/s.
C11_ContinuousPowerAtSpeedInMs ==
    fn = "get_continuous_power" =>
        out = at_speed(arg.power_summary,
                       to_sint32(times(kmh2ms,
                                       from_sint32(arg.vehicle.max_speed))))
              * 1000

\* C12: a simutrans speed converted to m/s and back is the speed it was,
\* for every speed, zero and negative ones included; and km/h converted to
\* m/s and back with kmh2ms and ms2kmh is the value it was.
C12_SpeedRoundTrip ==
    /\ fn = "v_to_speed" => out = arg.of
    /\ fn = "ms2kmh" => out = from_sint32(arg.of)

\* the same round trips for the speeds that are not negative
SpeedRoundTripFromZeroUp ==
    /\ (fn = "v_to_speed" /\ arg.of >= 0) => out = arg.of
    /\ fn = "ms2kmh" => out = from_sint32(arg.of)

\* C13: a number of yards converted to meters and back is the number it
\* was, and a number of steps converted to meters and back, under any
\* positive simtime_factor, is the number it was.
C13_DistanceRoundTrip ==
    /\ fn = "x_to_yards" => out = arg.of
    /\ fn = "x_to_steps" => out = arg.of.steps

\* the same round trips for the yards that are not negative, and all steps
DistanceRoundTripFromZeroUp ==
    /\ (fn = "x_to_yards" /\ arg.of >= 0) => out = arg.of
    /\ fn = "x_to_steps" => out = arg.of.steps

\* C20: after clear() a vehicle summary has length 0, tiles 0, weight 0 and
\* max_speed KMH_SPEED_UNLIMITED, and an adverse summary has max_speed
\* KMH_SPEED_UNLIMITED and cf = fr = 0.
C20_ClearedSummaries ==
    /\ fn = "vehicle_summary_t::clear" =>
           /\ out.length = 0 /\ out.tiles = 0 /\ out.weight = 0
           /\ out.max_speed = KMH_SPEED_UNLIMITED
    /\ fn = "adverse_summary_t::clear" =>
           /\ out.max_speed = KMH_SPEED_UNLIMITED
           /\ out.cf = from_sint32(0) /\ out.fr = from_sint32(0)

\* summaries that held other values are cleared
C20_Witness ==
    \/ /\ fn = "vehicle_summary_t::clear"
       /\ arg.length > 0 /\ arg.tiles > 0 /\ arg.weight > 0
       /\ arg.max_speed < KMH_SPEED_UNLIMITED
       /\ out.max_speed = KMH_SPEED_UNLIMITED
    \/ /\ fn = "adverse_summary_t::clear"
       /\ arg.cf # from_sint32(0) /\ arg.fr # from_sint32(0)
       /\ arg.max_speed < KMH_SPEED_UNLIMITED
       /\ out.fr = from_sint32(0)

(***************************************************************************)
(* The engine by value (convoy_t).                                         *)
(*                                                                         *)
(* A convoy c is its summaries and the curves of its variant:              *)
(* [vehicle, adverse, force_summary, brake_summary, power_summary].        *)
(* calc_max_speed, calc_max_weight, calc_max_starting_weight,              *)
(* calc_min_braking_distance and calc_move are declared in convoy.h and    *)
(* defined in convoy.cc; here they are what the description of the engine  *)
(* says they compute, built from the inline functions of convoy.h.         *)
(***************************************************************************)
CF_TRACK == from_sint32(13)

FR_ROAD == float32e8_t(15, 1000)

WEIGHT_UNLIMITED == 2147483647

\* g: gravitation constant: 9,81 [m/s^2]
g_accel == float32e8_t(981, 100)

zero == from_sint32(0)

abs(x) == <<Abs(x[1]), x[2]>>

min(a, b) == IF less_than(b, a) THEN b ELSE a

convoy_t_get_braking_force_negated(c, speed) ==
    -(at_speed(c.brake_summary, speed) * 1000)

\* convoy_t::get_braking_force(speed), in N
convoy_t_get_braking_force(c, speed) == at_speed(c.brake_summary, speed) * 1000

\* convoy_t::get_starting_force(), in N
convoy_t_get_starting_force_kN(c) == at_speed(c.force_summary, 0)

convoy_t_get_starting_force_N(c) == at_speed(c.force_summary, 0) * 1000

\* convoy_t::get_force(speed), in N
convoy_t_get_force_negated(c, speed) ==
    LET v == to_sint32(abs(speed))
    IN  IF v = 0 THEN -convoy_t_get_starting_force_N(c)
                 ELSE -(at_speed(c.force_summary, v) * 1000)

convoy_t_get_force_without_abs(c, speed) ==
    LET v == to_sint32(speed)
    IN  IF v = 0 THEN convoy_t_get_starting_force_N(c)
                 ELSE at_speed(c.force_summary, v) * 1000

convoy_t_get_force(c, speed) ==
    LET v == to_sint32(abs(speed))
    IN  IF v = 0 THEN convoy_t_get_starting_force_N(c)
                 ELSE at_speed(c.force_summary, v) * 1000

\* convoy_t::calc_speed_holding_force(v, Frs), in N
calc_speed_holding_force(c, v, Frs) ==
    min(from_sint32(convoy_t_get_force(c, v)),
        plus(times(times(c.adverse.cf, v), v), Frs))

\* cos(alpha) for the inclinations of SinAlphas (sin_alpha = 1000 * sin(alpha))
cos_alpha(sin_alpha) ==
    IF sin_alpha = 0 THEN from_sint32(1) ELSE float32e8_t(24, 25)

\* weight_summary_t(kgs, sin_alpha): clear() and add_weight(kgs, sin_alpha)
weight_summary_t(kgs, sin_alpha) ==
    [weight |-> kgs,
     weight_cos |-> times(from_sint32(kgs), cos_alpha(sin_alpha)),
     weight_sin |-> times(from_sint32(kgs), float32e8_t(sin_alpha, 1000))]

calc_Frs_less_Fs(c, w) ==
    times(g_accel,
          plus(times(c.adverse.fr, w.weight_cos), negative(w.weight_sin)))

\* Frs = Fr + Fs = g * m * (fr * cos(alpha) + sin(alpha)), in N
calc_Frs(c, w) ==
    times(g_accel,
          plus(times(c.adverse.fr, w.weight_cos), w.weight_sin))

\* The engine can hold the speed kmh (in km/h) with the given w: the
\* force that holds the speed is not more than the force it has.
Sustained(c, w, kmh) ==
    LET v == times(kmh2ms, from_sint32(kmh))
        Frs == calc_Frs(c, w)
    IN  calc_speed_holding_force(c, v, Frs)
            = plus(times(times(c.adverse.cf, v), v), Frs)

\* The fixed number of iterations no loop of the engine exceeds.
MAX_ITERATIONS == 32

\* calc_max_speed(w): the search for the largest speed the force curve
\* sustains, by halving the interval from 0 to the speed cap
search_begin(c, w) ==
    IF Sustained(c, w, c.vehicle.max_speed)
    THEN [lo |-> c.vehicle.max_speed, hi |-> c.vehicle.max_speed,
          iterations |-> 0]
    ELSE [lo |-> 0, hi |-> c.vehicle.max_speed, iterations |-> 0]

search_continues_to_equal(st) == st.lo < st.hi

search_continues(st) == st.hi - st.lo > 1 /\ st.iterations < MAX_ITERATIONS

search_step(c, w, st) ==
    LET mid == (st.lo + st.hi) \div 2
    IN  IF Sustained(c, w, mid)
        THEN [st EXCEPT !.lo = mid, !.iterations = @ + 1]
        ELSE [st EXCEPT !.hi = mid, !.iterations = @ + 1]

RECURSIVE search(_, _, _)
search(c, w, st) ==
    IF search_continues(st) THEN search(c, w, search_step(c, w, st))
                            ELSE st

calc_max_speed(c, w) == search(c, w, search_begin(c, w)).lo

\* The largest w in kg the force (in N) moves at the inclination.
weight_allowed(c, force, sin_alpha) ==
    LET k == times(g_accel,
                   plus(times(c.adverse.fr, cos_alpha(sin_alpha)),
                        float32e8_t(sin_alpha, 1000)))
    IN  IF k[1] <= 0 THEN WEIGHT_UNLIMITED
        ELSE IF force[1] <= 0 THEN 0
        ELSE to_sint32(divided_by(force, k))

calc_max_starting_weight(c, sin_alpha) ==
    weight_allowed(c, from_sint32(convoy_t_get_starting_force_N(c)), sin_alpha)

\* The force in N the continuous power leaves at the top speed, after the
\* air resistance.
force_at_max_speed(c) ==
    LET v == times(kmh2ms, from_sint32(c.vehicle.max_speed))
    IN  plus(divided_by(
                 from_sint32(convoy_t_get_continuous_power_W(c.power_summary,
                                                             c.vehicle)), v),
             negative(times(times(c.adverse.cf, v), v)))

calc_max_weight(c, sin_alpha) ==
    LET by_force == calc_max_starting_weight(c, sin_alpha)
        by_power == IF c.vehicle.max_speed = 0 THEN WEIGHT_UNLIMITED
                    ELSE weight_allowed(c, force_at_max_speed(c), sin_alpha)
    IN  IF by_power < by_force THEN by_power ELSE by_force

(***************************************************************************)
(* The engine, evaluated for convoys from bounded sets.                    *)
(***************************************************************************)
\* speed caps in km/h (0, 5, 10 and 20 m/s)
Caps == {0, 18, 36, 72}

SinAlphas == {-280, 0, 280}

\* weights in kg
Weights == {125, 1000, 2000}

\* curves of one level
Flat == {curve \in Curves :
            curve.slow = curve.start /\ curve.fast = curve.start}

Convoys ==
    [vehicle : [max_speed : Caps],
     adverse : [cf : {zero, CF_TRACK}, fr : {zero, FR_ROAD}],
     force_summary : Curves,
     power_summary : Flat]

\* a function of the convoy arg is evaluated
Apply(name, r) ==
    /\ fn' = name
    /\ out' = r
    /\ UNCHANGED <<arg, lazy>>

Eval_calc_max_speed ==
    \E kgs \in Weights, sin_alpha \in SinAlphas :
        Apply("calc_max_speed",
              [kgs |-> kgs, sin_alpha |-> sin_alpha,
               max_speed |->
                   calc_max_speed(arg, weight_summary_t(kgs, sin_alpha))])

Eval_calc_max_weight ==
    \E sin_alpha \in SinAlphas :
        Apply("calc_max_weight",
              [sin_alpha |-> sin_alpha,
               max_weight |-> calc_max_weight(arg, sin_alpha)])

Eval_calc_max_starting_weight ==
    \E sin_alpha \in SinAlphas :
        Apply("calc_max_starting_weight",
              [sin_alpha |-> sin_alpha,
               max_weight |-> calc_max_starting_weight(arg, sin_alpha)])

InitEngine == InitLazy /\ is_valid = 0 /\ fn = "none" /\ arg \in Convoys /\ out = <<>>

NextEngine ==
    \/ Eval_calc_max_speed
    \/ Eval_calc_max_weight
    \/ Eval_calc_max_starting_weight

SpecEngine == InitEngine /\ [][NextEngine]_vars

(***************************************************************************)
(* Properties of the engine.                                               *)
(***************************************************************************)
\* the weight the starting force allows, from the force at speed 0 in kN
ByStartingForce(c, sin_alpha) ==
    weight_allowed(c, from_sint32(at_speed(c.force_summary, 0) * 1000),
                   sin_alpha)

\* the weight the continuous power allows at the top speed
ByContinuousPower(c, sin_alpha) ==
    IF c.vehicle.max_speed = 0 THEN WEIGHT_UNLIMITED
    ELSE weight_allowed(c, force_at_max_speed(c), sin_alpha)

Heavier == {kgs \in Weights : kgs >= out.kgs}

MaxSpeedOf(kgs) == calc_max_speed(arg, weight_summary_t(kgs, out.sin_alpha))

FlatPositive(curve) == curve \in Flat /\ curve.start > 0

accelerating_force(c, w, Fm, v) ==
    plus(from_sint32(Fm),
         negative(plus(times(times(c.adverse.cf, v), v), calc_Frs(c, w))))

\* calc_move(delta_t, simtime_factor, weight, akt_speed_soll,
\*           next_speed_limit, steps_til_limit, steps_til_brake,
\*           akt_speed, sp_soll): the new akt_speed and sp_soll, and whether
\* the tick braked.  Where the distance to the limit is not more than the
\* braking distance the braking force is applied, otherwise the force of the
\* engine; a = (Fm - Frs - cf * v^2) / m acts for delta_t.  The speed does
\* not pass akt_speed_soll from below and does not get negative; braking
\* ends at the next speed limit, and a convoy that is faster than
\* akt_speed_soll is braked down to it, not set to it.
calc_move(c, delta_t, simtime_factor, w, akt_speed_soll, next_speed_limit, steps_til_limit, steps_til_brake, akt_speed, sp_soll) ==
    LET dt == float32e8_t(delta_t, DT_TIME_FACTOR)
        v == speed_to_v(akt_speed)
        vsoll == speed_to_v(akt_speed_soll)
        vlim == speed_to_v(next_speed_limit)
        braking == steps_til_limit <= steps_til_brake
        Fm == IF braking
              THEN -convoy_t_get_braking_force(c, to_sint32(v))
              ELSE convoy_t_get_force(c, v)
        a == divided_by(accelerating_force(c, w, Fm, v),
                        from_sint32(w.weight))
        v1 == plus(v, times(a, dt))
        least == IF braking THEN min(v, vlim) ELSE zero
        v2 == IF less_than(v1, least) THEN least
              ELSE IF less_than(vsoll, v1)
                      /\ ~(braking /\ less_than(vsoll, v)) THEN vsoll
              ELSE v1
        dx == times(v2, dt)
    IN  [akt_speed |-> v_to_speed(v2),
         sp_soll |-> sp_soll + x_to_yards(divided_by(dx, simtime_factor)),
         braking |-> braking]

\* The ticks last one or two seconds.
DeltaTs == {DT_TIME_FACTOR, 2 * DT_TIME_FACTOR}

\* the desired speeds and the speeds a convoy starts from, in simutrans speed
Targets == {72}

StartSpeeds == {0, 72, 144}

\* <<steps_til_limit, steps_til_brake>>
Limits == {<<0, 0>>, <<4, 2>>}

\* the curve of no force and that of the most
Extremes == {curve \in Flat : curve.start \in {0, MaxLevel}}

\* convoys without resistance and convoys with air and rolling resistance
MoveConvoys ==
    {c \in [vehicle : [max_speed : Targets],
            adverse : [cf : {zero, CF_TRACK}, fr : {zero, FR_ROAD}],
            force_summary : Extremes,
            brake_summary : Extremes] :
        (c.adverse.cf = zero) <=> (c.adverse.fr = zero)}

\* The air resistance is evaluated at the speeds whose square is small, the
\* rolling resistance on level ground; a convoy that got faster than every
\* speed a convoy starts from is not moved on.
Eval_calc_move ==
    /\ ~(\A speed \in StartSpeeds : out.akt_speed > speed)
    /\ arg.convoy.adverse.cf # zero => speed_to_v(out.akt_speed)[2] <= 8
    /\ \E delta_t \in DeltaTs, simtime_factor \in Factors \ {half},
          kgs \in Weights \ {125}, sin_alpha \in SinAlphas, l \in Limits :
         /\ arg.convoy.adverse.fr # zero => sin_alpha = 0
         /\
            LET r == calc_move(arg.convoy, delta_t, simtime_factor,
                               weight_summary_t(kgs, sin_alpha),
                               arg.akt_speed_soll, 0, l[1], l[2],
                               out.akt_speed, 0)
            IN  Apply("calc_move",
                      [akt_speed |-> r.akt_speed, sp_soll |-> r.sp_soll,
                       braking |-> r.braking, was |-> out.akt_speed,
                       steps_til_limit |-> l[1], sin_alpha |-> sin_alpha])

InitMove ==
    /\ InitLazy /\ is_valid = 0
    /\ fn = "none"
    /\ arg \in [convoy : MoveConvoys, akt_speed_soll : Targets]
    /\ out \in [akt_speed : StartSpeeds, sp_soll : {0}, braking : {FALSE},
                was : {0}, steps_til_limit : {0}, sin_alpha : {0}]

NextMove == Eval_calc_move

SpecMove == InitMove /\ [][NextMove]_vars

braking_begin(v) == [v |-> v, x |-> zero, iterations |-> 0]

braking_continues(st) ==
    less_than(zero, st.v) /\ st.iterations < MAX_ITERATIONS

braking_step(c, w, st) ==
    LET dt == from_sint32(1)
        Fm == -convoy_t_get_braking_force(c, to_sint32(st.v))
        a == divided_by(accelerating_force(c, w, Fm, st.v),
                        from_sint32(w.weight))
        v1 == plus(st.v, times(a, dt))
    IN  [v |-> IF less_than(v1, zero) THEN zero ELSE v1,
         x |-> plus(st.x, times(st.v, dt)),
         iterations |-> st.iterations + 1]

\* convoys that brake with the curve they pull with
LoopConvoys ==
    {c \in [vehicle : [max_speed : Caps \ {0}],
            adverse : [cf : {zero, CF_TRACK}, fr : {zero, FR_ROAD}],
            force_summary : Curves,
            brake_summary : Curves] :
        c.brake_summary = c.force_summary}

Eval_search_begin ==
    /\ fn = "none"
    /\ Apply("calc_max_speed",
             search_begin(arg.convoy,
                          weight_summary_t(arg.kgs, arg.sin_alpha)))

Eval_search_step ==
    /\ fn = "calc_max_speed"
    /\ search_continues(out)
    /\ Apply("calc_max_speed",
             search_step(arg.convoy,
                         weight_summary_t(arg.kgs, arg.sin_alpha), out))

\* The air resistance is left out of the braking: its square does not fit.
Eval_braking_begin ==
    /\ fn = "none"
    /\ arg.convoy.adverse.cf = zero
    /\ Apply("calc_min_braking_distance", braking_begin(arg.v))

Eval_braking_step ==
    /\ fn = "calc_min_braking_distance"
    /\ braking_continues(out)
    /\ Apply("calc_min_braking_distance",
             braking_step(arg.convoy,
                          weight_summary_t(arg.kgs, arg.sin_alpha), out))

InitLoops ==
    /\ InitLazy /\ is_valid = 0
    /\ fn = "none"
    /\ arg \in [convoy : LoopConvoys, kgs : Weights \ {125},
                sin_alpha : SinAlphas, v : {from_sint32(5)}]
    /\ out = <<>>

NextLoops ==
    \/ Eval_search_begin
    \/ Eval_search_step
    \/ Eval_braking_begin
    \/ Eval_braking_step

SpecLoops == InitLoops /\ [][NextLoops]_vars

SearchEndedOnNonMonotonicCurve ==
    /\ fn = "calc_max_speed"
    /\ ~search_continues(out)
    /\ out.iterations > 1
    /\ arg.convoy.force_summary.slow > arg.convoy.force_summary.start
    /\ arg.convoy.force_summary.slow > arg.convoy.force_summary.fast

(***************************************************************************)
(* vehicle_summary_t and adverse_summary_t, built as the update hooks      *)
(* build them: clear(), add_vehicle() for each vehicle, update_summary();  *)
(* clear(), set_by_waytype().                                              *)
(***************************************************************************)
\* The steps of a tile (simconst.h).
OBJECT_OFFSET_STEPS == 16

vehicle_summary_t_add_vehicle_last_speed(v, b) ==
    [v EXCEPT !.length = @ + b.length,
              !.weight = @ + b.gewicht,
              !.max_speed = b.geschw]

\* vehicle_summary_t::add_vehicle(b)
vehicle_summary_t_add_vehicle(v, b) ==
    [v EXCEPT !.length = @ + b.length,
              !.weight = @ + b.gewicht,
              !.max_speed = IF b.geschw < @ THEN b.geschw ELSE @]

\* vehicle_summary_t::update_summary(length_of_last_vehicle)
vehicle_summary_t_update_summary(v, length_of_last_vehicle) ==
    LET max_8 == IF 8 > length_of_last_vehicle
                 THEN 8 ELSE length_of_last_vehicle
    IN  [v EXCEPT !.tiles = (v.length + (max_8 - length_of_last_vehicle)
                               + OBJECT_OFFSET_STEPS - 1)
                            \div OBJECT_OFFSET_STEPS,
                  !.weight = @ * 1000]

CF_MAGLEV_of_track == from_sint32(13)

CF_MAGLEV == from_sint32(10)

CF_ROAD == float32e8_t(252, 100)

CF_WATER == from_sint32(25)

CF_AIR == from_sint32(1)

FR_MAGLEV == float32e8_t(15, 10000)

FR_TRACK == float32e8_t(51, 10000)

FR_WATER == float32e8_t(1, 1000)

FR_AIR == float32e8_t(1, 1000)

\* adverse_summary_t::set_by_waytype(waytype)
adverse_summary_t_set_by_waytype(a, waytype) ==
    CASE waytype = "air_wt" ->
            [a EXCEPT !.cf = CF_AIR, !.fr = FR_AIR, !.br = float32e8_t(2, 1)]
      [] waytype = "water_wt" ->
            [a EXCEPT !.cf = CF_WATER, !.fr = FR_WATER,
                      !.br = float32e8_t(1, 10)]
      [] waytype \in {"track_wt", "narrowgauge_wt", "overheadlines_wt"} ->
            [a EXCEPT !.cf = CF_TRACK, !.fr = FR_TRACK,
                      !.br = float32e8_t(1, 2)]
      [] waytype \in {"tram_wt", "monorail_wt"} ->
            [a EXCEPT !.cf = CF_TRACK, !.fr = FR_TRACK,
                      !.br = float32e8_t(1, 1)]
      [] waytype = "maglev_wt" ->
            [a EXCEPT !.cf = CF_MAGLEV, !.fr = FR_MAGLEV,
                      !.br = float32e8_t(12, 10)]
      [] OTHER ->
            [a EXCEPT !.cf = CF_ROAD, !.fr = FR_ROAD, !.br = float32e8_t(1, 1)]

\* Convoys have up to MaxVehicles vehicles.
MaxVehicles == 3

\* the descriptors of the vehicles: get_length(), get_gewicht(), get_geschw()
Vehicles ==
    {[length |-> l, gewicht |-> g[1], geschw |-> g[2]] :
        l \in {3, 8, 13},
        g \in {<<1, MaxKmh>>, <<20, MaxKmh + 1>>,
               <<20, KMH_SPEED_UNLIMITED + 1>>}}

VehicleLists == UNION {[1..n -> Vehicles] : n \in 1..MaxVehicles}

\* the values of waytype_t: the named cases of set_by_waytype, road_wt and
\* two more that take the default
Waytypes == {"air_wt", "water_wt", "track_wt", "narrowgauge_wt",
             "overheadlines_wt", "tram_wt", "monorail_wt", "maglev_wt",
             "road_wt", "powerline_wt", "invalid_wt"}

\* a vehicle_summary_t for the vehicles: its fields hold what the memory held
Eval_vehicle_summary_t ==
    /\ fn = "none"
    /\ \E vehicles \in VehicleLists, v \in VehicleSummaries :
           Evaluate("vehicle_summary_t", [vehicles |-> vehicles, added |-> 0],
                    v)

Eval_clear ==
    /\ fn = "vehicle_summary_t"
    /\ Evaluate("clear", arg, vehicle_summary_t_clear(out))

Eval_add_vehicle ==
    /\ fn \in {"clear", "add_vehicle"}
    /\ arg.added < Len(arg.vehicles)
    /\ Evaluate("add_vehicle", [arg EXCEPT !.added = @ + 1],
                vehicle_summary_t_add_vehicle(out,
                                              arg.vehicles[arg.added + 1]))

Eval_update_summary ==
    /\ fn = "add_vehicle"
    /\ arg.added = Len(arg.vehicles)
    /\ Evaluate("update_summary", arg,
                vehicle_summary_t_update_summary(
                    out, arg.vehicles[Len(arg.vehicles)].length))

\* set_by_waytype on any summary, or on the one clear() has left
Eval_set_by_waytype ==
    /\ fn \in {"none", "adverse_summary_t::clear"}
    /\ \E a \in (IF fn = "none" THEN AdverseSummaries ELSE {out}),
          waytype \in Waytypes :
           Evaluate("set_by_waytype",
                    [a |-> a, waytype |-> waytype, after |-> fn],
                    adverse_summary_t_set_by_waytype(a, waytype))

InitSummaries == Init /\ is_valid = 0

NextSummaries ==
    \/ Eval_vehicle_summary_t
    \/ Eval_clear
    \/ Eval_add_vehicle
    \/ Eval_update_summary
    \/ Eval_adverse_summary_t_clear
    \/ Eval_set_by_waytype

SpecSummaries == InitSummaries /\ [][NextSummaries]_vars

RECURSIVE Total(_, _)
Total(vehicles, field) ==
    IF vehicles = <<>> THEN 0
    ELSE vehicles[1][field] + Total(Tail(vehicles), field)

\* the least n with n * d >= x
Ceiling(x, d) == CHOOSE n \in 0..x : n * d >= x /\ (n - 1) * d < x

Least(speeds) == CHOOSE x \in speeds : \A y \in speeds : x <= y

\* clear(), add_vehicle() for each vehicle and update_summary()
RECURSIVE Added(_, _)
Added(v, vehicles) ==
    IF vehicles = <<>> THEN v
    ELSE Added(vehicle_summary_t_add_vehicle(v, vehicles[1]), Tail(vehicles))

Summarised(vehicles) ==
    vehicle_summary_t_update_summary(
        Added(vehicle_summary_t_clear(
                  [length |-> 0, tiles |-> 0, weight |-> 0, max_speed |-> 0]),
              vehicles),
        vehicles[Len(vehicles)].length)

\* the lists that differ from the list in the order of all but the last
Reordered(vehicles) ==
    LET n == Len(vehicles)
    IN  {[i \in 1..n |-> IF i < n THEN vehicles[p[i]] ELSE vehicles[n]] :
            p \in Permutations(1..(n - 1))}

\* C21: after clear(), add_vehicle() for each vehicle of a non-empty list
\* and update_summary(length of the last): length is the sum of the lengths,
\* weight 1000 times the sum of the weights, max_speed the least of the top
\* speeds and of KMH_SPEED_UNLIMITED, tiles the length plus
\* max(0, 8 - length of the last) in whole tiles, rounded up; and the order
\* of the vehicles before the last does not matter.
C21_VehicleSummary ==
    fn = "update_summary" =>
        LET vehicles == arg.vehicles
            last == vehicles[Len(vehicles)].length
            short == IF 8 - last > 0 THEN 8 - last ELSE 0
        IN  /\ out.length = Total(vehicles, "length")
            /\ out.weight = 1000 * Total(vehicles, "gewicht")
            /\ out.max_speed =
                  Least({vehicles[i].geschw : i \in 1..Len(vehicles)}
                        \cup {KMH_SPEED_UNLIMITED})
            /\ out.tiles = Ceiling(out.length + short, OBJECT_OFFSET_STEPS)
            /\ \A other \in Reordered(vehicles) : Summarised(other) = out

\* three vehicles of different top speeds, the slowest first, the last one
\* shorter than 8
C21_Witness ==
    /\ fn = "update_summary"
    /\ Len(arg.vehicles) = MaxVehicles
    /\ arg.vehicles[1].geschw < arg.vehicles[2].geschw
    /\ arg.vehicles[Len(arg.vehicles)].length < 8
    /\ out.max_speed = arg.vehicles[1].geschw
    /\ out.tiles * OBJECT_OFFSET_STEPS > out.length + OBJECT_OFFSET_STEPS - 1

\* the way classes rail, tram, road, water, air and maglev
WayClasses == {"track_wt", "tram_wt", "road_wt", "water_wt", "air_wt",
               "maglev_wt"}

\* C22: no two of the way classes rail, tram, road, water, air and maglev
\* receive the same cf from set_by_waytype.
C22_DistinctCf ==
    (fn = "set_by_waytype" /\ arg.waytype \in WayClasses) =>
        \A other \in WayClasses \ {arg.waytype} :
            adverse_summary_t_set_by_waytype(arg.a, other).cf # out.cf

\* C22, tram apart: no two of the way classes rail, road, water, air and
\* maglev receive the same cf from set_by_waytype; tram receives the cf and
\* the fr of rail and another br.
C22_DistinctCfButTram ==
    (fn = "set_by_waytype" /\ arg.waytype \in WayClasses) =>
        LET rail == adverse_summary_t_set_by_waytype(arg.a, "track_wt")
        IN  IF arg.waytype = "tram_wt"
            THEN out.cf = rail.cf /\ out.fr = rail.fr /\ out.br # rail.br
            ELSE \A other \in WayClasses \ {arg.waytype, "tram_wt"} :
                    adverse_summary_t_set_by_waytype(arg.a, other).cf # out.cf

C22_Witness ==
    /\ fn = "set_by_waytype"
    /\ arg.waytype = "tram_wt"
    /\ arg.a.cf # CF_TRACK
    /\ out.cf = CF_TRACK

\* C27: clear() resets cf, fr and max_speed and leaves br as it was;
\* set_by_waytype assigns cf, fr and br by the waytype alone, the road
\* constants for a waytype it does not name, and leaves max_speed as it was.
C27_ClearKeepsBr ==
    /\ fn = "adverse_summary_t::clear" =>
           /\ out.cf = zero /\ out.fr = zero
           /\ out.max_speed = KMH_SPEED_UNLIMITED
           /\ out.br = arg.br
    /\ fn = "set_by_waytype" =>
           /\ out.max_speed = arg.a.max_speed
           /\ \A a \in AdverseSummaries :
                 LET other == adverse_summary_t_set_by_waytype(a, arg.waytype)
                 IN  /\ other.cf = out.cf /\ other.fr = out.fr
                     /\ other.br = out.br
           /\ arg.waytype \in {"road_wt", "powerline_wt", "invalid_wt"} =>
                 /\ out.cf = CF_ROAD /\ out.fr = FR_ROAD
                 /\ out.br = from_sint32(1)

\* set_by_waytype of a waytype it does not name, on the summary clear() left
\* with the br and without the max_speed it had before
C27_Witness ==
    /\ fn = "set_by_waytype"
    /\ arg.waytype = "invalid_wt"
    /\ arg.after = "adverse_summary_t::clear"
    /\ arg.a.br # out.br
    /\ out.max_speed = KMH_SPEED_UNLIMITED

(***************************************************************************)
(* The validity bits, one by one.                                          *)
(***************************************************************************)
\* the bit a validate_* or a cached getter sets
Validates ==
    [validate_vehicle_summary |-> cd_vehicle_summary,
     validate_adverse_summary |-> cd_adverse_summary,
     validate_freight_summary |-> cd_freight_summary,
     validate_weight_summary |-> cd_weight_summary,
     get_starting_force |-> cd_starting_force,
     get_continuous_power |-> cd_continuous_power]

\* the bit an invalidate_* of a single item clears
Invalidates ==
    [invalidate_freight_summary |-> cd_freight_summary,
     invalidate_starting_force |-> cd_starting_force,
     invalidate_continuous_power |-> cd_continuous_power,
     invalidate_weight_summary |-> cd_weight_summary]

\* C23: validate_vehicle_summary, validate_adverse_summary,
\* validate_freight_summary, validate_weight_summary, get_starting_force and
\* get_continuous_power each set their own bit and leave every other bit as
\* it was, but that get_continuous_power, where it computes, sets the vehicle
\* bit too; invalidate_freight_summary, invalidate_starting_force,
\* invalidate_continuous_power and invalidate_weight_summary each clear their
\* own bit and leave every other bit as it was.
C23_OwnBitOnly ==
    /\ op \in DOMAIN Validates =>
          is_valid =
             IF op = "get_continuous_power"
                /\ ~HasBit(pre_valid, cd_continuous_power)
             THEN BitOr(BitOr(pre_valid, cd_continuous_power),
                        cd_vehicle_summary)
             ELSE BitOr(pre_valid, Validates[op])
    /\ op \in DOMAIN Invalidates =>
          is_valid = BitAndNot(pre_valid, Invalidates[op])

\* invalidate_starting_force has cleared its bit and left the bits of the
\* five other items set
C23_Witness ==
    /\ op = "invalidate_starting_force"
    /\ pre_valid = AllValid
    /\ is_valid = AllValid - cd_starting_force

\* C24: in every state of an existing_convoy_t the weight bit is set only
\* where the vehicle bit and the adverse bit are set, and the adverse bit
\* only where the vehicle bit is set.
C24_DependencyClosed ==
    kind = "existing" =>
        /\ HasBit(is_valid, cd_weight_summary) =>
              /\ HasBit(is_valid, cd_vehicle_summary)
              /\ HasBit(is_valid, cd_adverse_summary)
        /\ HasBit(is_valid, cd_adverse_summary) =>
              HasBit(is_valid, cd_vehicle_summary)

(***************************************************************************)
(* The hooks calling back.  update_*_summary, get_force_summary and        *)
(* get_power_summary are virtual: what runs behind them may call the       *)
(* public operations of the very object that is validating.                *)
(***************************************************************************)
ItemOf ==
    [validate_vehicle_summary |-> "vehicle",
     validate_adverse_summary |-> "adverse",
     validate_freight_summary |-> "freight",
     validate_weight_summary |-> "weight",
     get_starting_force |-> "starting_force",
     get_continuous_power |-> "continuous_power"]

\* what the hook does to the item it is computing
Callbacks == {"nothing", "validate", "invalidate"}

\* Calls from inside a hook nest up to MaxNesting deep.
MaxNesting == 2

invalidate_item(s, x) ==
    CASE x = "vehicle" -> invalidate_vehicle_summary(s)
      [] x = "adverse" -> invalidate_adverse_summary(s)
      [] x = "freight" -> invalidate_freight_summary(s)
      [] x = "weight" -> invalidate_weight_summary(s)
      [] x = "starting_force" -> invalidate_starting_force(s)
      [] x = "continuous_power" -> invalidate_continuous_power(s)

RECURSIVE validate_item(_, _, _, _)
RECURSIVE update_item(_, _, _, _)

\* The bit set when the hook has returned.
validate_item_setting_bit_last(s, reader, does, depth) ==
    IF ~HasBit(s.is_valid, Validates[reader])
    THEN LET t == update_item(s, reader, does, depth)
         IN  [t EXCEPT !.is_valid = BitOr(@, Validates[reader])]
    ELSE s

\* validate_*_summary, get_starting_force, get_continuous_power: the test of
\* the bit, the bit set, then the hook or the base computation
validate_item(s, reader, does, depth) ==
    IF ~HasBit(s.is_valid, Validates[reader])
    THEN update_item([s EXCEPT !.is_valid = BitOr(@, Validates[reader])],
                     reader, does, depth)
    ELSE s

\* the hook (the base computation) of the reader's item; the base
\* computation of the continuous power reads get_vehicle_summary() first
update_item(s, reader, does, depth) ==
    LET x == ItemOf[reader]
        t == Called(s, Recompute[x])
        u == IF x = "continuous_power" THEN validate_vehicle_summary(t)
             ELSE t
        w == CASE does = "validate" /\ depth > 0 ->
                    validate_item(u, reader, does, depth - 1)
               [] does = "invalidate" -> invalidate_item(u, x)
               [] OTHER -> u
    IN  [w EXCEPT ![x] = "fresh"]

Call_validate_item ==
    /\ Constructed
    /\ \E reader \in DOMAIN Validates, does \in Callbacks :
          /\ reader = "validate_weight_summary" => kind = "existing"
          /\ LET t == validate_item(Self, reader, does, MaxNesting)
             IN  /\ is_valid' = t.is_valid
                 /\ vehicle' = t.vehicle
                 /\ adverse' = t.adverse
                 /\ freight' = t.freight
                 /\ weight' = t.weight
                 /\ starting_force' = t.starting_force
                 /\ continuous_power' = t.continuous_power
                 /\ log' = t.log
                 /\ ret' = t.ret
                 /\ op' = "validate_item"
                 /\ pre_valid' = is_valid
                 /\ arg' = [reader |-> reader, does |-> does]
    /\ UNCHANGED <<kind, unnotified, callers, fn, out>>

NextNested ==
    \/ New_potential_convoy_t
    \/ New_existing_convoy_t
    \/ Call_validate_item
    \/ Call_invalidate_vehicle_summary
    \/ Call_invalidate_adverse_summary
    \/ Call_invalidate_freight_summary
    \/ Call_invalidate_starting_force
    \/ Call_invalidate_continuous_power
    \/ Call_invalidate_weight_summary

SpecNested == Init /\ [][NextNested]_vars

\* C25: a validate_* or cached getter invokes its hook (its base
\* computation) with its bit already set; a hook that validates or gets the
\* item it is computing is not invoked again; and the bit a hook has cleared
\* by invalidating its item is clear when the operation returns.
C25_BitSetBeforeHook ==
    op = "validate_item" =>
        LET bit == Validates[arg.reader]
            hook == Recompute[ItemOf[arg.reader]]
        IN  /\ Count(hook) = IF HasBit(pre_valid, bit) THEN 0 ELSE 1
            /\ \A i \in 1..Len(log) :
                  log[i].hook = hook => HasBit(log[i].valid, bit)
            /\ (arg.does = "invalidate" /\ Count(hook) = 1)
                  => ~HasBit(is_valid, bit)

\* the hook of the weight summary has validated the weight summary from
\* inside, and has run once
C25_Witness ==
    /\ op = "validate_item"
    /\ arg.reader = "validate_weight_summary"
    /\ arg.does = "validate"
    /\ Count("update_weight_summary") = 1
    /\ HasBit(is_valid, cd_weight_summary)

\* a base computation has invalidated the item it was computing, and the
\* bit is clear on return
HookInvalidated ==
    /\ op = "validate_item"
    /\ arg.reader = "get_starting_force"
    /\ arg.does = "invalidate"
    /\ Count("convoy_t::get_starting_force") = 1
    /\ ~HasBit(is_valid, cd_starting_force)

(***************************************************************************)
(* The engine force by speed.                                              *)
(***************************************************************************)
\* speeds in m/s, in halves, to both sides of zero and of Knee
Speeds == {float32e8_t(n, 2) : n \in (-(2 * Knee + 2))..(2 * Knee + 2)}

\* Frs in N: downhill, none, uphill
Resistances == {from_sint32(-500), zero, from_sint32(500)}

Eval_get_force ==
    /\ fn = "none"
    /\ \E speed \in Speeds :
        Apply("get_force",
              [speed |-> speed, force |-> convoy_t_get_force(arg, speed)])

Eval_calc_speed_holding_force ==
    /\ fn = "none"
    /\ \E v \in Speeds, Frs \in Resistances :
        Apply("calc_speed_holding_force",
              [v |-> v, Frs |-> Frs,
               force |-> calc_speed_holding_force(arg, v, Frs)])

NextForce ==
    \/ Eval_get_force
    \/ Eval_calc_speed_holding_force

SpecForce == InitEngine /\ [][NextForce]_vars

\* |speed|, and its whole m/s
Magnitude(speed) == IF speed[1] < 0 THEN <<-speed[1], speed[2]>> ELSE speed

Whole(speed) == Magnitude(speed)[1] \div Magnitude(speed)[2]

\* C26: get_force(speed) is the starting force for every speed with
\* |speed| < 1 m/s and 1000 * get_force_summary(trunc(|speed|)) for every
\* other, the same for speed and -speed; and calc_speed_holding_force(v, Frs)
\* is the lesser of get_force(v) and cf * v * v + Frs, never more than
\* get_force(v).
C26_ForceBySpeed ==
    /\ fn = "get_force" =>
          /\ out.force =
                IF less_than(Magnitude(out.speed), from_sint32(1))
                THEN convoy_t_get_starting_force_N(arg)
                ELSE 1000 * at_speed(arg.force_summary, Whole(out.speed))
          /\ out.force = convoy_t_get_force(arg, negative(out.speed))
    /\ fn = "calc_speed_holding_force" =>
          LET available == from_sint32(convoy_t_get_force(arg, out.v))
              needed == plus(times(arg.adverse.cf, times(out.v, out.v)),
                             out.Frs)
          IN  /\ out.force \in {available, needed}
              /\ ~less_than(available, out.force)
              /\ ~less_than(needed, out.force)

\* a speed of -1/2 m/s takes the starting force, which is not the force at
\* 1 m/s and more
C26_Witness ==
    /\ fn = "get_force"
    /\ out.speed = float32e8_t(-1, 2)
    /\ out.force = convoy_t_get_starting_force_N(arg)
    /\ out.force # convoy_t_get_force(arg, from_sint32(-1))
    /\ out.force # convoy_t_get_force(arg, from_sint32(-Knee))

\* the force that holds the speed is less than the engine's
HoldingForceBelowEngineForce ==
    /\ fn = "calc_speed_holding_force"
    /\ less_than(out.force, from_sint32(convoy_t_get_force(arg, out.v)))
    /\ less_than(zero, out.force)

(***************************************************************************)
(* wayobj_t: the images of a way object.  An object is its besch's         *)
(* is_fence() and its fields diagonal, hang and dir; the ground is what    *)
(* welt->lookup(get_pos()) returns, found = FALSE for NULL.  A ribi is the *)
(* set of its directions, so that (~dir) & 15 is the set of the others.    *)
(***************************************************************************)
\* the slopes of hang_t that have an image of their own (ribi.h)
hang_t == [flach |-> 0, nord |-> 4, west |-> 12, ost |-> 28, sued |-> 36]

Directions == {"nord", "ost", "sued", "west"}

\* the switch of get_bild and get_after_bild, from index = 2 on
switch_hang(hang) ==
    CASE hang = hang_t.nord -> 9
      [] hang = hang_t.ost -> 11
      [] hang = hang_t.sued -> 13
      [] hang = hang_t.west -> 15
      [] hang = 2 * hang_t.nord -> 17
      [] hang = 2 * hang_t.ost -> 19
      [] hang = 2 * hang_t.sued -> 21
      [] hang = 2 * hang_t.west -> 23
      [] OTHER -> 2

\* wayobj_t::get_bild(): the local hang is 0 or the slope of the ground
wayobj_t_get_bild(obj, gr) ==
    IF obj.is_fence
    THEN LET hang == IF gr.found THEN gr.weg_hang ELSE 0
             dir2 == IF gr.found
                     THEN (Directions \ obj.dir) \ gr.weg_ribi
                     ELSE Directions \ obj.dir
         IN  [image |-> "fence", index |-> switch_hang(hang) + 1,
              dir |-> dir2]
    ELSE IF obj.hang # 0
         THEN [image |-> "back_slope", index |-> obj.hang, dir |-> {}]
         ELSE IF obj.diagonal
              THEN [image |-> "back_diagonal", index |-> 0, dir |-> obj.dir]
              ELSE [image |-> "back", index |-> 0, dir |-> obj.dir]

\* wayobj_t::get_after_bild(): its local hang lives in the block of the
\* lookup, and the switch reads the field
wayobj_t_get_after_bild(obj, gr) ==
    IF obj.is_fence
    THEN LET dir2 == IF gr.found
                     THEN (Directions \ obj.dir) \ gr.weg_ribi
                     ELSE Directions \ obj.dir
         IN  [image |-> "fence", index |-> switch_hang(obj.hang),
              dir |-> dir2]
    ELSE IF obj.hang # 0
         THEN [image |-> "front_slope", index |-> obj.hang, dir |-> {}]
         ELSE IF obj.diagonal
              THEN [image |-> "front_diagonal", index |-> 0, dir |-> obj.dir]
              ELSE [image |-> "front", index |-> 0, dir |-> obj.dir]

\* flat, the eight slopes of the switch and one slope it does not name
Slopes ==
    {0, 1} \cup {k * hang_t[d] : k \in {1, 2}, d \in Directions}

Wayobjs ==
    [is_fence : BOOLEAN, diagonal : BOOLEAN, hang : Slopes,
     dir : {{"nord", "sued"}, {"ost", "west"}, {"nord", "ost"}}]

Grounds ==
    {[found |-> FALSE, weg_hang |-> 0, weg_ribi |-> {}]}
       \cup [found : {TRUE}, weg_hang : Slopes,
             weg_ribi : {{}, {"ost", "west"}}]

Eval_get_bild ==
    /\ fn = "none"
    /\ \E obj \in Wayobjs, gr \in Grounds :
          Evaluate("get_bild", [obj |-> obj, gr |-> gr],
                   wayobj_t_get_bild(obj, gr))

Eval_get_after_bild ==
    /\ fn = "none"
    /\ \E obj \in Wayobjs, gr \in Grounds :
          Evaluate("get_after_bild", [obj |-> obj, gr |-> gr],
                   wayobj_t_get_after_bild(obj, gr))

NextWayobj ==
    \/ Eval_get_bild
    \/ Eval_get_after_bild

SpecWayobj == InitSummaries /\ [][NextWayobj]_vars

\* C28: for a fence, whatever the slope of the ground and the stored hang,
\* get_after_bild passes to get_fence_image_id the index of the slope of the
\* ground (of flat ground where there is none), and get_bild passes that
\* index plus one.
C28_FenceImagesOfOneSlope ==
    /\ (fn = "get_after_bild" /\ arg.obj.is_fence) =>
          /\ out.index =
                switch_hang(IF arg.gr.found THEN arg.gr.weg_hang ELSE 0)
          /\ wayobj_t_get_bild(arg.obj, arg.gr).index = out.index + 1
    /\ (fn = "get_bild" /\ arg.obj.is_fence) =>
          out.index = wayobj_t_get_after_bild(arg.obj, arg.gr).index + 1

\* where the stored hang is the slope of the ground (0 without ground) the
\* two indices are one apart
FenceImagesOfTheStoredSlope ==
    (/\ fn \in {"get_bild", "get_after_bild"}
     /\ arg.obj.is_fence
     /\ arg.obj.hang = IF arg.gr.found THEN arg.gr.weg_hang ELSE 0) =>
        wayobj_t_get_bild(arg.obj, arg.gr).index
           = wayobj_t_get_after_bild(arg.obj, arg.gr).index + 1

====
